---- MODULE Spec2Model ----
\* Model of the STM32U5 flash controller driver
\* (embassy-stm32/src/flash/u5.rs, non-secure register alias; the secure
\* alias is the same code on SECCR/SECSR/SECKEYR).
\*
\* The driver's functions are operators on a machine record
\*   [cr, sr, key, wlog, flash, rd, reads, busy, ret]
\* (cr/sr: control and status register, key: progress of the hardware's
\* key sequence, wlog: register writes made by the current call, flash:
\* memory-mapped word writes and fences of the current call, rd/reads/busy:
\* last status value read, number of status reads and number of status reads
\* that saw BSY in the current call, ret: the value returned).  The variable
\* arg holds the arguments of the current call, pc and op where the caller is,
\* cr0 the control register at the entry of the current call.  One action
\* per public function applies the operator to the current machine; the two
\* blocking functions are split at the iterations of their spin-wait so that
\* the hardware can act in between.
\*
\* The controller is the environment of the driver.  It is taken to be:
\*   - the control register stores what is written to it, except LOCK, which
\*     software can only set and the key sequence KEY1, KEY2 clears;
\*   - the error flags of the status register are sticky and
\*     write-1-to-clear, BSY is read-only;
\*   - a control register value with STRT set, or a word write into the flash
\*     array, makes the controller busy; the controller later clears BSY,
\*     and STRT with it, and may raise any of the error flags (HwComplete).
EXTENDS Integers, Naturals, Sequences, FiniteSets, TLC

VARIABLES cr, sr, key, wlog, flash, rd, reads, busy, ret, pc, op, cr0, arg,
          WRITE_SIZE

vars == <<cr, sr, key, wlog, flash, rd, reads, busy, ret, pc, op, cr0, arg,
          WRITE_SIZE>>

-----------------------------------------------------------------------------
\* Bounds of the model

\* largest number of status reads that still see BSY in one spin-wait
MaxPolls == 2
\* sectors have index_in_bank in 0..MaxIndex
MaxIndex == 1

\* values of super::WRITE_SIZE the model is built with (8: two words,
\* 6: not a multiple of 4)
WriteSizes == {6, 8}
\* arguments handed to write(): the start address, as <<high half, low half>>
\* of a u32 (0x0800_0000 and 0x0800_0010), and the seed s of the buffer, whose
\* byte i (from 1) is (16*s + i) % 256
WriteArgs == {[start_address |-> <<2048, 0>>, seed |-> 1],
              [start_address |-> <<2048, 16>>, seed |-> 15]}

-----------------------------------------------------------------------------
\* Registers

\* a u32 is the pair <<high 16 bits, low 16 bits>>
KEY1 == <<17767, 291>>        \* 0x4567_0123
KEY2 == <<52719, 35243>>      \* 0xCDEF_89AB

ErrFlags == {"pgserr", "sizerr", "pgaerr", "wrperr", "progerr"}
SrFlags == ErrFlags \cup {"bsy"}

\* value of a register built by pac's write(|w| ...): Default is all zero
CrDefault == [lock |-> FALSE, pg |-> FALSE, per |-> FALSE, strt |-> FALSE,
              pnb |-> 0, bker |-> FALSE]

\* NSCR after reset: locked, no mode selected
CrReset == [CrDefault EXCEPT !.lock = TRUE]

SrIdle == [f \in SrFlags |-> FALSE]

Banks == {"Bank1", "Bank2", "Otp"}
Sectors == [bank : Banks, index_in_bank : 0..MaxIndex]

Buf(s, n) == [i \in 1..n |-> (16 * s + i) % 256]

\* the arguments of a call: a sector (bank, index_in_bank) or a write
\* (start_address, seed of the buffer); NoArg for a function without any
NoArg == [bank |-> "none", index_in_bank |-> 0, start_address |-> <<0, 0>>,
          seed |-> 0]

SectorArg(sec) ==
  [NoArg EXCEPT !.bank = sec.bank, !.index_in_bank = sec.index_in_bank]

WriteArg(w) ==
  [NoArg EXCEPT !.start_address = w.start_address, !.seed = w.seed]

-----------------------------------------------------------------------------
\* Register access layer and the controller's reaction to an access

\* a write of the whole control register: the register stores the value
\* (LOCK can be set but not cleared this way); a value with STRT set starts
\* the operation, the controller goes busy
cr_write(m, v) ==
  [m EXCEPT !.cr = [v EXCEPT !.lock = m.cr.lock \/ v.lock],
            !.sr = IF v.strt THEN [m.sr EXCEPT !.bsy = TRUE] ELSE m.sr,
            !.wlog = Append(m.wlog, <<"cr", v>>)]

\* a read of the status register
sr_read(m) ==
  [m EXCEPT !.rd = m.sr, !.reads = m.reads + 1,
            !.busy = m.busy + (IF m.sr.bsy THEN 1 ELSE 0)]

\* a write of the status register: error flags are write-1-to-clear, BSY is
\* read-only
sr_write(m, v) ==
  [m EXCEPT !.sr = [f \in SrFlags |->
                      IF f = "bsy" THEN m.sr[f] ELSE m.sr[f] /\ ~v[f]],
            !.wlog = Append(m.wlog, <<"sr", v>>)]

\* a write of the key register: KEY1 followed by KEY2 clears the lock bit
key_write(m, k) ==
  [m EXCEPT !.key = IF m.key = 0 /\ k = KEY1 THEN 1 ELSE 0,
            !.cr = IF m.key = 1 /\ k = KEY2 THEN [m.cr EXCEPT !.lock = FALSE]
                   ELSE m.cr,
            !.wlog = Append(m.wlog, <<"keyr", k>>)]

\* a volatile word write into the flash array: starts programming
write_volatile(m, a, w) ==
  [m EXCEPT !.flash = Append(m.flash, <<"write", a, w>>),
            !.sr = [m.sr EXCEPT !.bsy = TRUE]]

fence(m) == [m EXCEPT !.flash = Append(m.flash, <<"fence">>)]

-----------------------------------------------------------------------------
\* The driver

\* lock() as a whole-register write instead of a read-modify-write
lock_by_write(m) ==
  [cr_write(m, [CrDefault EXCEPT !.lock = TRUE]) EXCEPT !.ret = "()"]

lock(m) == [cr_write(m, [m.cr EXCEPT !.lock = TRUE]) EXCEPT !.ret = "()"]

\* unlock() without the test of the lock bit
unlock_unconditional(m) ==
  [key_write(key_write(m, KEY1), KEY2) EXCEPT !.ret = "()"]

unlock(m) ==
  IF m.cr.lock
  THEN [key_write(key_write(m, KEY1), KEY2) EXCEPT !.ret = "()"]
  ELSE [m EXCEPT !.ret = "()"]

\* enable_write() as a read-modify-write instead of a whole-register write
enable_write_by_modify(m, ws) ==
  IF ws % 4 # 0
  THEN [m EXCEPT !.ret = "panic"]
  ELSE [cr_write(m, [m.cr EXCEPT !.pg = TRUE]) EXCEPT !.ret = "()"]

\* enable_write() checking WRITE_SIZE after the register write
enable_write_assert_last(m, ws) ==
  LET w == cr_write(m, [CrDefault EXCEPT !.pg = TRUE])
  IN [w EXCEPT !.ret = IF ws % 4 # 0 THEN "panic" ELSE "()"]

enable_write(m, ws) ==
  IF ws % 4 # 0
  THEN [m EXCEPT !.ret = "panic"]
  ELSE [cr_write(m, [CrDefault EXCEPT !.pg = TRUE]) EXCEPT !.ret = "()"]

\* disable_write() as a read-modify-write instead of a whole-register write
disable_write_by_modify(m) ==
  [cr_write(m, [m.cr EXCEPT !.pg = FALSE]) EXCEPT !.ret = "()"]

disable_write(m) ==
  [cr_write(m, [CrDefault EXCEPT !.pg = FALSE]) EXCEPT !.ret = "()"]

\* u32::from_be_bytes in the place of u32::from_le_bytes
from_be_bytes(b) == <<b[2] + 256 * b[1], b[4] + 256 * b[3]>>

\* u32::from_le_bytes: byte 1 is the least significant
from_le_bytes(b) == <<b[3] + 256 * b[4], b[1] + 256 * b[2]>>

\* address + n on u32
add_u32(a, n) ==
  LET lo == a[2] + n
  IN <<(a[1] + (lo \div 65536)) % 65536, lo % 65536>>

\* buf.chunks(4)
RECURSIVE chunks(_)
chunks(b) ==
  IF Len(b) = 0 THEN <<>>
  ELSE IF Len(b) <= 4 THEN <<b>>
  ELSE <<SubSeq(b, 1, 4)>> \o chunks(SubSeq(b, 5, Len(b)))

\* the loop of write() over the chunks cs, the next word going to address
RECURSIVE write_loop(_, _, _)
write_loop(m, address, cs) ==
  IF cs = <<>> THEN [m EXCEPT !.ret = "Ok(())"]
  ELSE IF Len(Head(cs)) # 4 THEN [m EXCEPT !.ret = "panic"]
  ELSE write_loop(fence(write_volatile(m, address, from_le_bytes(Head(cs)))),
                  add_u32(address, Len(Head(cs))),
                  Tail(cs))

write(m, start_address, buf) == write_loop(m, start_address, chunks(buf))

\* status() testing the size error before the sequence error
status_size_first(m) ==
  LET r == sr_read(m)
      s == r.rd
  IN [r EXCEPT !.ret =
        IF s.bsy THEN "Ok(true)"
        ELSE IF s.sizerr THEN "Err(Size)"
        ELSE IF s.pgserr THEN "Err(Seq)"
        ELSE IF s.pgaerr THEN "Err(Unaligned)"
        ELSE IF s.wrperr THEN "Err(Protected)"
        ELSE IF s.progerr THEN "Err(Prog)"
        ELSE "Ok(false)"]

status(m) ==
  LET r == sr_read(m)
      s == r.rd
  IN [r EXCEPT !.ret =
        IF s.bsy THEN "Ok(true)"
        ELSE IF s.pgserr THEN "Err(Seq)"
        ELSE IF s.sizerr THEN "Err(Size)"
        ELSE IF s.pgaerr THEN "Err(Unaligned)"
        ELSE IF s.wrperr THEN "Err(Protected)"
        ELSE IF s.progerr THEN "Err(Prog)"
        ELSE "Ok(false)"]

\* clear_all_err() writing the register's default value instead of the value
\* read
clear_all_err_zero(m) ==
  LET r == sr_read(m) IN [sr_write(r, SrIdle) EXCEPT !.ret = "()"]

clear_all_err(m) ==
  LET r == sr_read(m) IN [sr_write(r, r.rd) EXCEPT !.ret = "()"]

\* result.map(|_| ())
map_unit(r) == IF r \in {"Ok(true)", "Ok(false)"} THEN "Ok(())" ELSE r

\* begin_erase_sector() setting STRT in the update that latches the target
begin_erase_sector_single_update(m, sector) ==
  IF sector.bank \notin {"Bank1", "Bank2"}
  THEN [m EXCEPT !.ret = "panic"]
  ELSE [cr_write(m, [m.cr EXCEPT !.per = TRUE,
                                 !.pnb = sector.index_in_bank,
                                 !.bker = (sector.bank = "Bank2"),
                                 !.strt = TRUE]) EXCEPT !.ret = "()"]

\* the two modify() calls of begin_erase_sector
begin_erase_sector(m, sector) ==
  IF sector.bank \notin {"Bank1", "Bank2"}
  THEN [m EXCEPT !.ret = "panic"]
  ELSE LET a == cr_write(m, [m.cr EXCEPT !.per = TRUE,
                                         !.pnb = sector.index_in_bank,
                                         !.bker = (sector.bank = "Bank2")])
           b == cr_write(a, [a.cr EXCEPT !.strt = TRUE])
       IN [b EXCEPT !.ret = "()"]

\* end_erase() returning a decoded error before the cleanup
end_erase_early_error(m) ==
  LET result == status(m)
  IN IF result.ret = "Ok(true)"
     THEN [result EXCEPT !.ret = "Err(Busy)"]
     ELSE IF result.ret # "Ok(false)"
     THEN result
     ELSE LET a == cr_write(result, [result.cr EXCEPT !.per = FALSE])
          IN [lock(clear_all_err(a)) EXCEPT !.ret = map_unit(result.ret)]

\* end_erase() clearing the error flags before it reads the status
end_erase_clear_first(m) ==
  LET result == status(clear_all_err(m))
  IN IF result.ret = "Ok(true)"
     THEN [result EXCEPT !.ret = "Err(Busy)"]
     ELSE LET a == cr_write(result, [result.cr EXCEPT !.per = FALSE])
          IN [lock(a) EXCEPT !.ret = map_unit(result.ret)]

\* end_erase() re-locking before the Busy early return
end_erase_lock_on_busy(m) ==
  LET result == status(m)
  IN IF result.ret = "Ok(true)"
     THEN [lock(result) EXCEPT !.ret = "Err(Busy)"]
     ELSE LET a == cr_write(result, [result.cr EXCEPT !.per = FALSE])
          IN [lock(clear_all_err(a)) EXCEPT !.ret = map_unit(result.ret)]

end_erase(m) ==
  LET result == status(m)
  IN IF result.ret = "Ok(true)"
     THEN [result EXCEPT !.ret = "Err(Busy)"]
     ELSE LET a == cr_write(result, [result.cr EXCEPT !.per = FALSE])
          IN [lock(clear_all_err(a)) EXCEPT !.ret = map_unit(result.ret)]

\* complete_operation() clearing the error flags before it reads the status
complete_operation_clear_first(m) ==
  LET result == status(clear_all_err(m))
  IN IF result.ret = "Ok(true)"
     THEN [result EXCEPT !.ret = "Err(Busy)"]
     ELSE LET b == IF result.cr.pg THEN disable_write(result)
                   ELSE cr_write(result, [result.cr EXCEPT !.per = FALSE])
          IN [lock(b) EXCEPT !.ret = map_unit(result.ret)]

complete_operation(m) ==
  LET result == status(m)
  IN IF result.ret = "Ok(true)"
     THEN [result EXCEPT !.ret = "Err(Busy)"]
     ELSE LET a == clear_all_err(result)
              b == IF a.cr.pg THEN disable_write(a)
                   ELSE cr_write(a, [a.cr EXCEPT !.per = FALSE])
          IN [lock(b) EXCEPT !.ret = map_unit(result.ret)]

\* blocking_wait_ready() reading the status once, without a loop
blocking_wait_ready_once(m) ==
  LET s == status(m)
  IN IF s.ret \in {"Ok(true)", "Ok(false)"} THEN [s EXCEPT !.ret = "Ok(())"]
     ELSE s

\* blocking_wait_ready() going round its loop once more after BSY cleared
blocking_wait_ready_extra(m) ==
  LET s == status(m)
  IN IF s.ret = "Ok(false)" /\ m.reads > m.busy
     THEN [s EXCEPT !.ret = "Ok(())"]
     ELSE IF s.ret = "Ok(false)" THEN [s EXCEPT !.ret = "Ok(true)"]
     ELSE s

\* blocking_wait_ready() dropping the error of status() instead of
\* propagating it
blocking_wait_ready_drop_error(m) ==
  LET s == status(m)
  IN IF s.ret = "Ok(true)" THEN s ELSE [s EXCEPT !.ret = "Ok(())"]

\* one iteration of the loop of blocking_wait_ready: ret is "Ok(true)" when
\* the loop goes on, else what blocking_wait_ready returns
blocking_wait_ready(m) ==
  LET s == status(m)
  IN IF s.ret = "Ok(false)" THEN [s EXCEPT !.ret = "Ok(())"] ELSE s

-----------------------------------------------------------------------------
\* State machine

Mach == [cr |-> cr, sr |-> sr, key |-> key, wlog |-> wlog, flash |-> flash,
         rd |-> rd, reads |-> reads, busy |-> busy, ret |-> ret]

\* the machine at the entry of a call
Entry == [Mach EXCEPT !.wlog = <<>>, !.flash = <<>>, !.rd = SrIdle,
                      !.reads = 0, !.busy = 0, !.ret = "none"]

Commit(n) ==
  /\ cr' = n.cr /\ sr' = n.sr /\ key' = n.key /\ wlog' = n.wlog
  /\ flash' = n.flash /\ rd' = n.rd /\ reads' = n.reads /\ busy' = n.busy
  /\ ret' = n.ret

\* a call of the function named o with arguments a that runs to its end in
\* one step
CallWith(o, a, n) ==
  /\ pc = "idle"
  /\ Commit(n)
  /\ op' = o
  /\ arg' = a
  /\ cr0' = cr
  /\ pc' = IF n.ret = "panic" THEN "panic" ELSE "idle"
  /\ UNCHANGED WRITE_SIZE

Call(o, n) == CallWith(o, NoArg, n)

Init ==
  /\ cr = CrReset
  /\ sr = SrIdle
  /\ key = 0
  /\ wlog = <<>>
  /\ flash = <<>>
  /\ rd = SrIdle
  /\ reads = 0
  /\ busy = 0
  /\ ret = "none"
  /\ pc = "idle"
  /\ op = "none"
  /\ cr0 = CrReset
  /\ arg = NoArg
  /\ WRITE_SIZE \in WriteSizes

Do_lock == Call("lock", lock(Entry))

Do_unlock == Call("unlock", unlock(Entry))

Do_enable_write == Call("enable_write", enable_write(Entry, WRITE_SIZE))

Do_disable_write == Call("disable_write", disable_write(Entry))

Do_write ==
  \E w \in WriteArgs :
    CallWith("write", WriteArg(w),
             write(Entry, w.start_address, Buf(w.seed, WRITE_SIZE)))

Do_begin_erase_sector ==
  \E sec \in Sectors :
    CallWith("begin_erase_sector", SectorArg(sec),
             begin_erase_sector(Entry, sec))

Do_end_erase == Call("end_erase", end_erase(Entry))

Do_complete_operation == Call("complete_operation", complete_operation(Entry))

Do_clear_all_err == Call("clear_all_err", clear_all_err(Entry))

Do_status == Call("status", status(Entry))

\* blocking_write: write(start_address, buf)?, then the spin-wait
Do_blocking_write ==
  \E w \in WriteArgs :
    LET n == write(Entry, w.start_address, Buf(w.seed, WRITE_SIZE))
    IN /\ pc = "idle"
       /\ Commit(n)
       /\ op' = "blocking_write"
       /\ arg' = WriteArg(w)
       /\ cr0' = cr
       /\ pc' = IF n.ret = "panic" THEN "panic" ELSE "wait"
       /\ UNCHANGED WRITE_SIZE

\* blocking_erase_sector: begin_erase_sector(sector), then the spin-wait
Do_blocking_erase_sector ==
  \E sec \in Sectors :
    LET n == begin_erase_sector(Entry, sec)
    IN /\ pc = "idle"
       /\ Commit(n)
       /\ op' = "blocking_erase_sector"
       /\ arg' = SectorArg(sec)
       /\ cr0' = cr
       /\ pc' = IF n.ret = "panic" THEN "panic" ELSE "wait"
       /\ UNCHANGED WRITE_SIZE

\* one iteration of blocking_wait_ready inside a blocking function; a read
\* that sees BSY is taken at most MaxPolls times
Do_blocking_wait_ready ==
  LET n == blocking_wait_ready(Mach)
  IN /\ pc = "wait"
     /\ sr.bsy => reads < MaxPolls
     /\ Commit(n)
     /\ pc' = IF n.ret = "Ok(true)" THEN "wait"
              ELSE IF op = "blocking_erase_sector" THEN "end_erase"
              ELSE "idle"
     /\ UNCHANGED <<op, cr0, arg, WRITE_SIZE>>

\* the tail of blocking_erase_sector: the wait's result is dropped and
\* end_erase() gives the result
Do_blocking_erase_sector_end ==
  /\ pc = "end_erase"
  /\ Commit(end_erase(Mach))
  /\ pc' = "idle"
  /\ UNCHANGED <<op, cr0, arg, WRITE_SIZE>>

\* the controller finishes the running operation: BSY and STRT clear and any
\* set of error flags is raised; flags already set stay set
HwComplete ==
  \E E \in SUBSET ErrFlags :
    /\ sr.bsy
    /\ sr' = [f \in SrFlags |-> IF f = "bsy" THEN FALSE ELSE sr[f] \/ f \in E]
    /\ cr' = [cr EXCEPT !.strt = FALSE]
    /\ IF pc = "idle"
       THEN /\ op' = "hw" /\ ret' = "none" /\ wlog' = <<>> /\ flash' = <<>>
            /\ rd' = SrIdle /\ reads' = 0 /\ busy' = 0 /\ cr0' = cr'
            /\ arg' = NoArg
       ELSE UNCHANGED <<op, ret, wlog, flash, rd, reads, busy, cr0, arg>>
    /\ UNCHANGED <<key, pc, WRITE_SIZE>>

Next ==
  \/ Do_lock
  \/ Do_unlock
  \/ Do_enable_write
  \/ Do_disable_write
  \/ Do_write
  \/ Do_begin_erase_sector
  \/ Do_end_erase
  \/ Do_complete_operation
  \/ Do_clear_all_err
  \/ Do_status
  \/ Do_blocking_write
  \/ Do_blocking_erase_sector
  \/ Do_blocking_wait_ready
  \/ Do_blocking_erase_sector_end
  \/ HwComplete

Spec == Init /\ [][Next]_vars

\* A caller that uses the blocking functions only.  The driver's spin-wait
\* keeps running, and the controller ends the operation it has started.
NextBlocking ==
  \/ Do_blocking_write
  \/ Do_blocking_erase_sector
  \/ Do_blocking_wait_ready
  \/ Do_blocking_erase_sector_end
  \/ HwComplete

FairSpecBlocking ==
  /\ Init /\ [][NextBlocking]_vars
  /\ WF_vars(Do_blocking_wait_ready) /\ WF_vars(HwComplete)

-----------------------------------------------------------------------------
\* A caller that follows the programming protocol, over and over:
\* unlock(); enable_write(); blocking_write(addr, buf); complete_operation()

Prog_unlock ==
  /\ op \in {"none", "complete_operation"}
  /\ cr.lock /\ sr = SrIdle
  /\ Do_unlock

Prog_enable_write == op = "unlock" /\ Do_enable_write

Prog_blocking_write == op = "enable_write" /\ Do_blocking_write

Prog_complete_operation == op = "blocking_write" /\ Do_complete_operation

NextProg ==
  \/ Prog_unlock
  \/ Prog_enable_write
  \/ Prog_blocking_write
  \/ Do_blocking_wait_ready
  \/ HwComplete
  \/ Prog_complete_operation

SpecProg == Init /\ [][NextProg]_vars

-----------------------------------------------------------------------------
\* Properties

\* the function named o has returned and the controller has not acted since
Returned(o) == pc = "idle" /\ op = o

NoErr(s) == \A f \in ErrFlags : ~s[f]

\* the error flags from the highest priority to the lowest, and the error
\* each one is reported as
ErrOrder == <<"pgserr", "sizerr", "pgaerr", "wrperr", "progerr">>

ErrName == [pgserr |-> "Err(Seq)", sizerr |-> "Err(Size)",
            pgaerr |-> "Err(Unaligned)", wrperr |-> "Err(Protected)",
            progerr |-> "Err(Prog)"]

HighestError(s) ==
  LET i == CHOOSE k \in 1..5 :
             s[ErrOrder[k]] /\ \A j \in 1..(k - 1) : ~s[ErrOrder[j]]
  IN ErrName[ErrOrder[i]]

KeySequence == << <<"keyr", KEY1>>, <<"keyr", KEY2>> >>

\* C1 (as stated): every function that modifies PG or PER (enable_write,
\* disable_write, begin_erase_sector, end_erase, blocking_erase_sector,
\* complete_operation) returns with the lock bit set, whatever the outcome.
C1_Original ==
  (pc = "idle" /\ op \in {"enable_write", "disable_write",
                          "begin_erase_sector", "end_erase",
                          "blocking_erase_sector", "complete_operation"})
    => cr.lock

\* C1 (amended): end_erase, blocking_erase_sector and complete_operation
\* return with the lock bit set whenever they return success or a decoded
\* hardware error; when end_erase or complete_operation returns Busy, and
\* when enable_write, disable_write or begin_erase_sector returns, the lock
\* bit is as it was at entry.
C1_Relock ==
  /\ (pc = "idle" /\ ret # "Err(Busy)"
      /\ op \in {"end_erase", "blocking_erase_sector", "complete_operation"})
       => cr.lock
  /\ (pc = "idle" /\ ret = "Err(Busy)"
      /\ op \in {"end_erase", "complete_operation"})
       => cr.lock = cr0.lock
  /\ (pc = "idle"
      /\ op \in {"enable_write", "disable_write", "begin_erase_sector"})
       => cr.lock = cr0.lock

\* C1 witness: end_erase, entered unlocked, has returned a decoded error and
\* the controller is locked
C1_Witness ==
  Returned("end_erase") /\ ret = "Err(Protected)" /\ ~cr0.lock /\ cr.lock

\* C2: status() decodes one read of the status register by fixed priority:
\* Ok(true) when BSY is set whatever the error flags; else the error of the
\* first set flag in the order Seq > Size > Unaligned > Protected > Prog;
\* Ok(false) exactly when BSY and the five error flags are clear.
C2_StatusPriority ==
  Returned("status") =>
    /\ reads = 1 /\ wlog = <<>> /\ sr = rd
    /\ rd.bsy => ret = "Ok(true)"
    /\ (~rd.bsy /\ rd.pgserr) => ret = "Err(Seq)"
    /\ (~rd.bsy /\ ~rd.pgserr /\ rd.sizerr) => ret = "Err(Size)"
    /\ (~rd.bsy /\ ~rd.pgserr /\ ~rd.sizerr /\ rd.pgaerr)
         => ret = "Err(Unaligned)"
    /\ (~rd.bsy /\ ~rd.pgserr /\ ~rd.sizerr /\ ~rd.pgaerr /\ rd.wrperr)
         => ret = "Err(Protected)"
    /\ (~rd.bsy /\ ~rd.pgserr /\ ~rd.sizerr /\ ~rd.pgaerr /\ ~rd.wrperr
        /\ rd.progerr) => ret = "Err(Prog)"
    /\ (ret = "Ok(false)") <=> (~rd.bsy /\ NoErr(rd))

\* C2 witness: status() has decoded a register with the sequence and the
\* program error both set
C2_Witness ==
  /\ Returned("status") /\ ret = "Err(Seq)"
  /\ rd.pgserr /\ rd.progerr /\ rd.wrperr /\ ~rd.bsy

\* C3: blocking_erase_sector, when the controller clears BSY with sticky
\* error flags set, returns the highest-priority decoded error, and returns
\* with the controller locked, PER clear and every error flag clear.
\* (sr in the state where the wait has ended is the status the controller
\* shows once BSY has cleared.)
C3_BlockingEraseError ==
  [][(op = "blocking_erase_sector" /\ pc = "end_erase" /\ pc' = "idle") =>
       /\ ~sr.bsy /\ rd = sr
       /\ ~NoErr(sr) => ret' = HighestError(sr)
       /\ sr = [SrIdle EXCEPT !.wrperr = TRUE] => ret' = "Err(Protected)"
       /\ cr'.lock /\ ~cr'.per /\ NoErr(sr') /\ ~sr'.bsy]_vars

\* C3 witness: blocking_erase_sector, entered unlocked, saw BSY in at least
\* one poll and has returned Protected for the write-protection flag alone
C3_Witness ==
  /\ Returned("blocking_erase_sector") /\ ret = "Err(Protected)"
  /\ busy >= 1 /\ ~cr0.lock
  /\ rd = [SrIdle EXCEPT !.wrperr = TRUE]

\* C4 (as stated): when blocking_write or blocking_erase_sector returns, the
\* lock bit is set, the controller is not busy, PG and PER are clear and the
\* five error flags are clear.
C4_Original ==
  (pc = "idle" /\ op \in {"blocking_write", "blocking_erase_sector"})
    => (cr.lock /\ ~sr.bsy /\ ~cr.pg /\ ~cr.per /\ NoErr(sr))

\* C4 (amended): when blocking_erase_sector returns, the lock bit is set,
\* the controller is not busy, PER is clear, the five error flags are clear
\* and PG is as it was at entry; when blocking_write returns, the controller
\* is not busy, blocking_write has written no register, so that the lock bit,
\* PG and PER are as they were at entry, and the error flags are the ones the
\* returned result decodes, not cleared.
C4_PostState ==
  /\ Returned("blocking_erase_sector") =>
       (cr.lock /\ ~sr.bsy /\ ~cr.per /\ NoErr(sr) /\ cr.pg = cr0.pg)
  /\ Returned("blocking_write") =>
       /\ ~sr.bsy /\ sr = rd
       /\ wlog = <<>> /\ cr = [cr0 EXCEPT !.strt = cr.strt]
       /\ ret = (IF NoErr(sr) THEN "Ok(())" ELSE HighestError(sr))

\* C4 witness: blocking_write, entered unlocked with PG set, has returned an
\* error after a busy poll; PG and the error flag are still set
C4_Witness ==
  /\ Returned("blocking_write") /\ ret = "Err(Prog)" /\ busy >= 1
  /\ cr.pg /\ ~cr.lock /\ sr.progerr

\* C5 (as stated): in every reachable state at most one of PG and PER is set.
C5_Original == ~(cr.pg /\ cr.per)

\* C5 (amended): at most one of PG and PER is set as long as neither
\* begin_erase_sector nor blocking_erase_sector is called while PG is set:
\* every other step keeps "at most one of PG and PER", and such a call
\* returns from begin_erase_sector with both set.
C5_ModeExclusion ==
  [][LET eraseWithPg ==
           /\ pc = "idle" /\ cr.pg
           /\ op' \in {"begin_erase_sector", "blocking_erase_sector"}
     IN /\ (~(cr.pg /\ cr.per) /\ ~eraseWithPg) => ~(cr'.pg /\ cr'.per)
        /\ (eraseWithPg /\ pc' # "panic") => (cr'.pg /\ cr'.per)]_vars

\* C5 witness: enable_write, called with PER set, has returned with only PG
\* set
C5_Witness == Returned("enable_write") /\ cr0.per /\ cr.pg /\ ~cr.per

\* C6: unlock() writes KEY1 then KEY2 to the key register and nothing else
\* exactly when the lock bit is set at entry, which clears the lock bit; with
\* the lock bit clear it writes nothing; an unlock() right after an unlock()
\* writes nothing and changes no register.
C6_Unlock ==
  [][(pc = "idle" /\ op' = "unlock") =>
       /\ cr.lock => (wlog' = KeySequence /\ cr' = [cr EXCEPT !.lock = FALSE])
       /\ ~cr.lock => (wlog' = <<>> /\ cr' = cr)
       /\ sr' = sr /\ key' = key /\ flash' = <<>> /\ reads' = 0
       /\ op = "unlock" => (wlog' = <<>> /\ cr' = cr)]_vars

\* C6 witness: unlock(), entered locked, has written the key sequence and the
\* controller is unlocked
C6_Witness ==
  Returned("unlock") /\ cr0.lock /\ ~cr.lock /\ wlog = KeySequence

\* C7: lock() sets the lock bit whatever the state, leaves every other
\* control register field as it was, writes no key, and a lock() right after
\* a lock() changes no register.
C7_Lock ==
  [][(pc = "idle" /\ op' = "lock") =>
       /\ cr' = [cr EXCEPT !.lock = TRUE]
       /\ sr' = sr /\ key' = key /\ flash' = <<>> /\ reads' = 0
       /\ Len(wlog') = 1 /\ wlog'[1][1] = "cr"
       /\ op = "lock" => cr' = cr]_vars

\* C7 witness: lock(), entered unlocked with PG set and the erase target
\* latched, has returned locked with those fields kept
C7_Witness ==
  /\ Returned("lock") /\ ~cr0.lock /\ cr.lock
  /\ cr.pg /\ cr.pnb = 1 /\ cr.bker

\* C8 (as stated): complete_operation(), called with PG set and the status
\* register idle with no error flag, clears PG, leaves PER as it was, sets
\* the lock bit and returns Ok(()).
C8_Original ==
  (Returned("complete_operation") /\ cr0.pg /\ rd = SrIdle) =>
    (~cr.pg /\ cr.per = cr0.per /\ cr.lock /\ ret = "Ok(())")

\* C8 (amended): complete_operation(), called with PG set and the status
\* register idle with no error flag, clears PG and with it PER, STRT, PNB and
\* BKER whatever they were (disable_write overwrites the whole control
\* register), sets the lock bit and returns Ok(()).
C8_CompleteProgram ==
  (Returned("complete_operation") /\ cr0.pg /\ rd = SrIdle) =>
    /\ cr = CrReset
    /\ ret = "Ok(())"
    /\ sr = SrIdle

\* C8 witness: complete_operation(), entered unlocked with PG and PER both
\* set and the status idle, has returned Ok
C8_Witness ==
  /\ Returned("complete_operation") /\ cr0.pg /\ cr0.per /\ ~cr0.lock
  /\ rd = SrIdle /\ ret = "Ok(())" /\ ~cr.per

\* C9: blocking_write returns at the first status read that does not show
\* BSY: after N reads that showed BSY it has made N+1 reads, and it returns
\* Ok(()) only when that last read showed neither BSY nor an error flag.
C9_BlockingWritePolls ==
  Returned("blocking_write") =>
    /\ reads = busy + 1
    /\ ~rd.bsy
    /\ (ret = "Ok(())") <=> NoErr(rd)

\* C9 witness: blocking_write has returned Ok(()) after two reads that showed
\* BSY and a third that did not
C9_Witness ==
  Returned("blocking_write") /\ ret = "Ok(())" /\ busy = 2 /\ reads = 3

\* C10: when end_erase() or complete_operation() returns Ok or a decoded
\* error, the five error flags are clear and the controller is not busy, and
\* a status() called next returns Ok(false).
C10_CleanupClearsErrors ==
  [][LET cleaned(o, r) == o \in {"end_erase", "complete_operation"}
                          /\ r # "Err(Busy)"
     IN /\ (pc' = "idle" /\ cleaned(op', ret')) => (NoErr(sr') /\ ~sr'.bsy)
        /\ (pc = "idle" /\ cleaned(op, ret) /\ op' = "status")
             => ret' = "Ok(false)"]_vars

\* C10 witness: complete_operation() has returned a decoded error for a
\* register with two error flags set, and the flags are clear
C10_Witness ==
  /\ Returned("complete_operation") /\ ret = "Err(Size)"
  /\ rd.sizerr /\ rd.progerr /\ NoErr(sr)

\* C11: when the status register shows BSY, end_erase() and
\* complete_operation() return Err(Busy) after that one status read and write
\* no register: PG, PER, the lock bit and the error flags are as they were;
\* and they return Err(Busy) in no other case.
C11_BusyEarlyReturn ==
  [][(pc = "idle" /\ op' \in {"end_erase", "complete_operation"}) =>
       /\ sr.bsy => /\ ret' = "Err(Busy)"
                    /\ wlog' = <<>> /\ reads' = 1 /\ rd' = sr
                    /\ cr' = cr /\ sr' = sr /\ key' = key /\ flash' = <<>>
       /\ ret' = "Err(Busy)" => sr.bsy]_vars

\* C11 witness: end_erase(), entered unlocked with PER set, BSY set and a
\* stale error flag, has returned Busy and all of them are still there
C11_Witness ==
  /\ Returned("end_erase") /\ ret = "Err(Busy)"
  /\ cr.per /\ ~cr.lock /\ sr.bsy /\ sr.wrperr

\* C12: when WRITE_SIZE is not a multiple of 4, enable_write() fails its
\* assertion and has written no register (control, status, key) nor the flash
\* array; when WRITE_SIZE is a multiple of 4 it returns with PG set.
C12_EnableWritePrecondition ==
  [][(pc = "idle" /\ op' = "enable_write") =>
       /\ WRITE_SIZE % 4 # 0 =>
            /\ pc' = "panic" /\ ret' = "panic"
            /\ wlog' = <<>> /\ flash' = <<>> /\ reads' = 0
            /\ cr' = cr /\ sr' = sr /\ key' = key
       /\ WRITE_SIZE % 4 = 0 =>
            /\ pc' = "idle" /\ ret' = "()" /\ cr'.pg
            /\ Len(wlog') = 1 /\ wlog'[1][1] = "cr" /\ wlog'[1][2].pg]_vars

\* C12 witness: enable_write() has failed its assertion on an unlocked
\* controller with WRITE_SIZE = 6, and PG is clear
C12_Witness ==
  /\ pc = "panic" /\ op = "enable_write" /\ WRITE_SIZE = 6
  /\ ~cr.lock /\ ~cr.pg /\ wlog = <<>>

\* C13: in the caller sequence unlock(); enable_write(); blocking_write();
\* complete_operation() started from a locked, idle, error-free controller,
\* whatever error flags the controller raises when it clears BSY,
\* complete_operation() returns what blocking_write() returned (Ok(()) or
\* the same decoded error, never Busy) and leaves the controller locked,
\* idle, with PG and PER clear and every error flag clear.
C13_ProgramProtocol ==
  [][(pc = "idle" /\ op = "blocking_write" /\ op' = "complete_operation") =>
       /\ cr.pg /\ ~cr.lock /\ ~sr.bsy
       /\ ret = (IF NoErr(sr) THEN "Ok(())" ELSE HighestError(sr))
       /\ pc' = "idle" /\ ret' = ret
       /\ cr'.lock /\ ~cr'.pg /\ ~cr'.per
       /\ NoErr(sr') /\ ~sr'.bsy]_vars

\* C13 witness: the sequence has ended with complete_operation() returning
\* the higher of two errors raised during blocking_write(), the controller
\* locked and clean
C13_Witness ==
  /\ Returned("complete_operation") /\ ret = "Err(Unaligned)"
  /\ cr0.pg /\ ~cr0.lock /\ rd.pgaerr /\ rd.progerr
  /\ cr = CrReset /\ sr = SrIdle

\* C14: blocking_wait_ready reads the status until the first read that does
\* not show BSY: a read that shows BSY keeps it in its loop, a read that
\* shows neither BSY nor an error flag makes it return Ok(()), a read that
\* shows no BSY and an error flag makes it return the decoded error; and,
\* the controller clearing BSY in the end, the wait comes to its end.
C14_WaitReady ==
  /\ [][(pc = "wait" /\ reads' = reads + 1) =>
          /\ rd' = sr /\ wlog' = wlog /\ cr' = cr /\ sr' = sr
          /\ sr.bsy => (pc' = "wait" /\ ret' = "Ok(true)")
          /\ ~sr.bsy =>
               /\ pc' # "wait"
               /\ ret' = (IF NoErr(sr) THEN "Ok(())" ELSE HighestError(sr))]_vars
  /\ (pc = "wait") ~> (pc # "wait")

\* C14 witness: the wait inside blocking_write has ended with a decoded error
\* at the first read that did not show BSY, after two that did
C14_Witness ==
  /\ Returned("blocking_write") /\ ret = "Err(Size)"
  /\ busy = 2 /\ reads = 3 /\ rd.sizerr /\ rd.wrperr /\ ~rd.bsy

\* C15: begin_erase_sector(sector) makes exactly two control register
\* updates: the first sets PER, PNB = sector.index_in_bank and BKER (false for
\* Bank1, true for Bank2) at once and does not set STRT; the second sets STRT
\* and keeps PER, PNB and BKER as latched.  (The same holds of the
\* begin_erase_sector inside blocking_erase_sector.)
C15_BeginEraseTwoUpdates ==
  [][(pc = "idle" /\ pc' # "panic"
      /\ op' \in {"begin_erase_sector", "blocking_erase_sector"}) =>
       LET first == wlog'[1][2]
           second == wlog'[2][2]
       IN /\ Len(wlog') = 2 /\ wlog'[1][1] = "cr" /\ wlog'[2][1] = "cr"
          /\ first.per /\ first.pnb = arg'.index_in_bank
          /\ arg'.bank = "Bank1" => ~first.bker
          /\ arg'.bank = "Bank2" => first.bker
          /\ arg'.bank \in {"Bank1", "Bank2"}
          /\ first.strt = cr.strt /\ first.pg = cr.pg /\ first.lock = cr.lock
          /\ second = [first EXCEPT !.strt = TRUE]
          /\ cr' = second]_vars

\* C15 witness: begin_erase_sector, for sector 1 of Bank2 on an unlocked
\* controller without STRT, has made its two updates
C15_Witness ==
  /\ Returned("begin_erase_sector")
  /\ arg.bank = "Bank2" /\ arg.index_in_bank = 1
  /\ ~cr0.lock /\ ~cr0.strt /\ ~cr0.per /\ ~cr0.bker /\ cr0.pnb = 0
  /\ Len(wlog) = 2 /\ ~wlog[1][2].strt /\ wlog[1][2].per /\ wlog[2][2].strt
  /\ cr.per /\ cr.bker /\ cr.pnb = 1 /\ cr.strt

\* C16: with WRITE_SIZE a multiple of 4, write(start_address, buf) makes
\* exactly WRITE_SIZE/4 word writes, the i-th (from 0) to start_address + 4*i
\* with bytes buf[4i..4i+3] as a little-endian word, in ascending order, each
\* followed by a fence before the next one; it reads and writes no controller
\* register and returns Ok(()).
C16_WriteWords ==
  [][(pc = "idle" /\ op' = "write" /\ WRITE_SIZE % 4 = 0) =>
       LET a == arg'.start_address
           b == Buf(arg'.seed, WRITE_SIZE)
           n == WRITE_SIZE \div 4
       IN /\ Len(flash') = 2 * n
          /\ \A i \in 0..(n - 1) :
               /\ flash'[2 * i + 1] =
                    <<"write", <<a[1], a[2] + 4 * i>>,
                      <<b[4 * i + 3] + 256 * b[4 * i + 4],
                        b[4 * i + 1] + 256 * b[4 * i + 2]>> >>
               /\ flash'[2 * i + 2] = <<"fence">>
          /\ wlog' = <<>> /\ reads' = 0
          /\ cr' = cr /\ key' = key
          /\ \A f \in ErrFlags : sr'[f] = sr[f]
          /\ ret' = "Ok(())" /\ pc' = "idle"]_vars

\* C16 witness: write() of the buffer of seed 15 at 0x0800_0010 has made its
\* two word writes, the second at 0x0800_0014
C16_Witness ==
  /\ Returned("write") /\ WRITE_SIZE = 8 /\ arg.seed = 15
  /\ Len(flash) = 4
  /\ flash[1] = <<"write", <<2048, 16>>, <<62707, 62193>> >>
  /\ flash[3] = <<"write", <<2048, 20>>, <<63735, 63221>> >>

\* C17: clear_all_err() reads the status register once and writes the value
\* read back: every error flag set at the read is clear afterwards, BSY is
\* as it was, and the control register is unchanged.
C17_ClearAllErr ==
  [][(pc = "idle" /\ op' = "clear_all_err") =>
       /\ reads' = 1 /\ rd' = sr
       /\ Len(wlog') = 1 /\ wlog'[1][1] = "sr" /\ wlog'[1][2] = sr
       /\ NoErr(sr') /\ sr'.bsy = sr.bsy
       /\ cr' = cr /\ key' = key /\ flash' = <<>>]_vars

\* C17 witness: clear_all_err() has cleared two error flags on an unlocked
\* controller with PG set, which is still unlocked with PG set
C17_Witness ==
  /\ Returned("clear_all_err") /\ rd.pgserr /\ rd.wrperr /\ NoErr(sr)
  /\ cr.pg /\ ~cr.lock /\ cr = cr0

\* C18: blocking_erase_sector never returns Err(Busy): BSY, once clear, stays
\* clear and the error flags are sticky, so the status register end_erase()
\* reads (once in status(), once in clear_all_err()) is still the status
\* read that ended the wait, and end_erase() returns the decode of that
\* status, which is also the result of the wait that was dropped.
C18_EraseResultAgrees ==
  [][(op = "blocking_erase_sector" /\ pc = "end_erase" /\ pc' = "idle") =>
       /\ sr = rd /\ reads' = reads + 2 /\ rd' = rd /\ ~rd.bsy
       /\ ret' = ret
       /\ ret' # "Err(Busy)"
       /\ ret' = (IF NoErr(rd) THEN "Ok(())" ELSE HighestError(rd))]_vars

\* C18 witness: blocking_erase_sector has returned the sequence error after
\* two reads that showed BSY, the read that ended the wait and the two reads
\* of end_erase()
C18_Witness ==
  /\ Returned("blocking_erase_sector") /\ ret = "Err(Seq)"
  /\ busy = 2 /\ reads = 5 /\ rd.pgserr /\ rd.sizerr

\* C19: enable_write() and disable_write() overwrite the control register:
\* after enable_write() PG is set and PER, STRT, PNB, BKER are zero whatever
\* they were, after disable_write() PG, PER, STRT, PNB, BKER are all zero
\* (LOCK, which a write cannot clear, stays).  lock(), begin_erase_sector()
\* and the PER-clearing step of end_erase() and complete_operation() are
\* read-modify-writes and keep every field they do not name.
C19_WriteVersusModify ==
  [][pc = "idle" =>
       /\ (op' = "enable_write" /\ pc' = "idle") =>
            /\ wlog' = << <<"cr", [CrDefault EXCEPT !.pg = TRUE]>> >>
            /\ cr' = [CrDefault EXCEPT !.pg = TRUE, !.lock = cr.lock]
       /\ op' = "disable_write" =>
            /\ wlog' = << <<"cr", CrDefault>> >>
            /\ cr' = [CrDefault EXCEPT !.lock = cr.lock]
       /\ op' = "lock" => cr' = [cr EXCEPT !.lock = TRUE]
       /\ (op' = "begin_erase_sector" /\ pc' = "idle") =>
            cr' = [cr EXCEPT !.per = TRUE, !.pnb = arg'.index_in_bank,
                             !.bker = (arg'.bank = "Bank2"), !.strt = TRUE]
       /\ (op' = "end_erase" /\ ret' # "Err(Busy)") =>
            cr' = [cr EXCEPT !.per = FALSE, !.lock = TRUE]
       /\ (op' = "complete_operation" /\ ret' # "Err(Busy)" /\ ~cr.pg) =>
            cr' = [cr EXCEPT !.per = FALSE, !.lock = TRUE]]_vars

\* C19 witness: disable_write(), called on an unlocked controller with PER
\* set and sector 1 of Bank2 latched, has returned with every field zero
C19_Witness ==
  /\ Returned("disable_write")
  /\ cr0.per /\ cr0.pnb = 1 /\ cr0.bker /\ ~cr0.lock
  /\ cr = CrDefault

====
